---- MODULE Spec2Model ----
(***************************************************************************)
(* The chunked streaming transcription pipeline of                         *)
(* back/backend/views/transcription.py: the generator streaming_transcribe *)
(* and the two request handlers that construct it, as a state machine.     *)
(*                                                                         *)
(* Time is counted in ticks of 1/Scale second, so that a duration such as  *)
(* 30.5 s is a whole number of ticks.  Every request p of Procs owns one   *)
(* generator; the file system (source files, segment files) is shared.     *)
(***************************************************************************)
EXTENDS Integers, Sequences, FiniteSets, TLC

(* ------------------------------ bounds -------------------------------- *)

\* Ticks per second: the resolution of durations and timestamps.
Scale == 2

\* The longest source, in seconds.
MaxSeconds == 65

\* The number of concurrent requests.
NProcs == 2

(* ------------------------- program constants -------------------------- *)

\* transcription.py:80  chunk_duration = 30
chunk_duration == 30

(* --------------------------- value domains ---------------------------- *)

Procs == 1 .. NProcs

\* The value of a local the generator has not assigned yet.
Unset == 0 - 1

\* What a source file holds: a probe of it fails (ok = FALSE) or reports
\* dur ticks.
Durations == 0 .. (MaxSeconds * Scale)

Media == {[ok |-> TRUE, dur |-> d] : d \in Durations} \cup {[ok |-> FALSE, dur |-> 0]}

\* The durations tried when several requests run together.
ConcMedia == {[ok |-> FALSE, dur |-> 0],
              [ok |-> TRUE, dur |-> 0],
              [ok |-> TRUE, dur |-> chunk_duration * Scale + 1],
              [ok |-> TRUE, dur |-> (chunk_duration + 1) * Scale]}

\* File names.  An already downloaded podcast file is named by the request;
\* tempfile.NamedTemporaryFile gives every upload a name of its own.
PodcastPath == <<"podcast", 0>>

TempPath(p) == <<"tmp", p>>

SourcePaths == {PodcastPath} \cup {TempPath(p) : p \in Procs}

MaxChunks == (MaxSeconds \div chunk_duration) + 1

\* transcription.py:94  segment_path = f"{audio_path}_segment_{i}.wav"
segment_path(path, i) == <<path, i>>

SegmentPaths == {segment_path(path, i) : path \in SourcePaths, i \in 0 .. (MaxChunks - 1)}

(* ------------------------ the engine's results ------------------------ *)

Word1 == [word |-> "he", start |-> 0, end |-> 1]

\* A word the engine gave no text for: word.get("word", "") supplies "".
Word2 == [start |-> 1, end |-> 3]

Segment0 == [id |-> 0, text |-> "he llo", start |-> 0, end |-> 3, words |-> <<Word1, Word2>>]

\* A segment without word-level data, and one whose word list is empty.
Segment1 == [id |-> 1, text |-> "you", start |-> 3, end |-> 4]

Segment1Empty == [id |-> 1, text |-> "you", start |-> 3, end |-> 4, words |-> <<>>]

\* A malformed segment: segment["start"] raises KeyError.
SegmentBad == [id |-> 0, text |-> "he llo"]

\* What model.transcribe may return for a segment file.
EngineResults == {[text |-> "", segments |-> <<>>],
                  [text |-> "he llo you", segments |-> <<Segment0, Segment1>>],
                  [text |-> "he llo you", segments |-> <<Segment0, Segment1Empty>>],
                  [text |-> "he llo", segments |-> <<SegmentBad>>],
                  [segments |-> <<Segment0>>]}

NoResult == [none |-> TRUE]

(* ------------------------------ state --------------------------------- *)

VARIABLES
    media,               \* what the audio under transcription holds
    srcExists,           \* os.path.exists of every source path
    segFile,             \* every segment path: 0 (absent) or the request that wrote it
    pc,                  \* where each request's generator stands
    audio_path,          \* streaming_transcribe's argument
    delete_on_complete,  \* streaming_transcribe's argument
    duration,            \* local of the generator, in ticks
    total_chunks,        \* local of the generator
    i,                   \* the loop variable
    result,              \* local: what model.transcribe returned
    segments,            \* local: the adjusted segments
    events,              \* what the generator has yielded so far, in order
    calls,               \* the ffmpeg runs and engine calls made so far, in order
    closed               \* the consumer closed the generator (GeneratorExit)

vars == <<media, srcExists, segFile, pc, audio_path, delete_on_complete, duration,
          total_chunks, i, result, segments, events, calls, closed>>

files == <<media, srcExists, segFile>>

locals == <<duration, total_chunks, i, result, segments>>

args == <<audio_path, delete_on_complete>>

(* ---------------------------- planning -------------------------------- *)

\* Mutant: the + 1 of line 81 is forgotten.
TotalChunksNoPlusOne(d) == d \div (chunk_duration * Scale)

\* Mutant: one window too many is planned.
TotalChunksPlusTwo(d) == (d \div (chunk_duration * Scale)) + 2

\* transcription.py:81  total_chunks = int(duration / chunk_duration) + 1
TotalChunks(d) == (d \div (chunk_duration * Scale)) + 1

\* transcription.py:85  start_time = i * chunk_duration   (in ticks)
start_time(k) == k * chunk_duration * Scale

Min(a, b) == IF a <= b THEN a ELSE b

\* transcription.py:86  end_time = min(start_time + chunk_duration, duration)
end_time(k, d) == Min(start_time(k) + chunk_duration * Scale, d)

\* Mutant: the skip rule without its "and i > 0".
SkippedAlsoFirst(k, d) == end_time(k, d) - start_time(k) < Scale

\* Mutant: the skip rule is left out.
SkipRuleRemoved(k, d) == FALSE

\* transcription.py:89  if end_time - start_time < 1.0 and i > 0: continue
Skipped(k, d) == end_time(k, d) - start_time(k) < Scale /\ k > 0

(* -------------------------- normalization ----------------------------- *)

DigitChar(d) == <<"0", "1", "2", "3", "4", "5", "6", "7", "8", "9">>[d + 1]

RECURSIVE Decimal(_)
\* str() of a natural number, as its sequence of digits.
Decimal(n) == IF n < 10 THEN <<DigitChar(n)>> ELSE Decimal(n \div 10) \o <<DigitChar(n % 10)>>

\* Mutant: the id without the window's index.
FormatIdLocalOnly(k, sid) == Decimal(sid)

\* transcription.py:112  f"{i}-{segment['id']}"
FormatId(k, sid) == Decimal(k) \o <<"-">> \o Decimal(sid)

\* transcription.py:121-125  one word, rebased; .get supplies the defaults
AdjustWord(w, k) ==
    [word |-> IF "word" \in DOMAIN w THEN w.word ELSE "",
     start |-> (IF "start" \in DOMAIN w THEN w.start ELSE 0) + start_time(k),
     end |-> (IF "end" \in DOMAIN w THEN w.end ELSE 0) + start_time(k)]

\* Mutant: the segment keeps the engine's local timestamps.
AdjustSegmentNoRebase(seg, k) ==
    IF "words" \in DOMAIN seg /\ seg.words # <<>>
    THEN [id |-> FormatId(k, seg.id),
          text |-> seg.text,
          start |-> seg.start,
          end |-> seg.end,
          words |-> [n \in 1 .. Len(seg.words) |-> AdjustWord(seg.words[n], k)]]
    ELSE [id |-> FormatId(k, seg.id),
          text |-> seg.text,
          start |-> seg.start,
          end |-> seg.end]

\* Mutant: every adjusted segment gets a words entry, empty if need be.
AdjustSegmentAlwaysWords(seg, k) ==
    [id |-> FormatId(k, seg.id),
     text |-> seg.text,
     start |-> seg.start + start_time(k),
     end |-> seg.end + start_time(k),
     words |-> IF "words" \in DOMAIN seg
               THEN [n \in 1 .. Len(seg.words) |-> AdjustWord(seg.words[n], k)]
               ELSE <<>>]

\* transcription.py:111-127  one adjusted segment of window k
AdjustSegment(seg, k) ==
    IF "words" \in DOMAIN seg /\ seg.words # <<>>
    THEN [id |-> FormatId(k, seg.id),
          text |-> seg.text,
          start |-> seg.start + start_time(k),
          end |-> seg.end + start_time(k),
          words |-> [n \in 1 .. Len(seg.words) |-> AdjustWord(seg.words[n], k)]]
    ELSE [id |-> FormatId(k, seg.id),
          text |-> seg.text,
          start |-> seg.start + start_time(k),
          end |-> seg.end + start_time(k)]

\* transcription.py:109-128  the loop over result["segments"]
Normalize(k, r) == [n \in 1 .. Len(r.segments) |-> AdjustSegment(r.segments[n], k)]

\* The subscripts of lines 110-115 raise KeyError on a result that lacks them.
NormalizeRaises(r) ==
    \/ "segments" \notin DOMAIN r
    \/ \E n \in 1 .. Len(r.segments) :
          ~({"id", "text", "start", "end"} \subseteq DOMAIN r.segments[n])

(* ------------------------------ events -------------------------------- *)

\* transcription.py:144,149,153  f"data: {json.dumps(payload)}\n\n": one
\* server-sent-event frame around the JSON text of the payload.
Sse(payload) == [data |-> payload]

\* Mutant: the final flag is raised one window early.
ChunkResponseFinalTooEarly(k, total, r, segs) ==
    [chunk_id |-> k,
     total_chunks |-> total,
     chunk_text |-> r.text,
     segments |-> segs,
     is_final |-> (k = total - 2)]

\* Mutant: the final flag is compared with total_chunks, not total_chunks - 1.
ChunkResponseOffByOne(k, total, r, segs) ==
    [chunk_id |-> k,
     total_chunks |-> total,
     chunk_text |-> r.text,
     segments |-> segs,
     is_final |-> (k = total)]

\* transcription.py:135-141  chunk_response
ChunkResponse(k, total, r, segs) ==
    [chunk_id |-> k,
     total_chunks |-> total,
     chunk_text |-> r.text,
     segments |-> segs,
     is_final |-> (k = total - 1)]

\* transcription.py:148-149  {'error': f"Error processing chunk {i}: {str(e)}"}
ChunkError(k, e) == [error |-> [chunk |-> k, cause |-> e]]

\* transcription.py:153  {'error': str(e)}
FatalError(e) == [error |-> [cause |-> e]]

IsChunkResponse(ev) == "chunk_id" \in DOMAIN ev.data

IsError(ev) == "error" \in DOMAIN ev.data

IsChunkError(ev) == IsError(ev) /\ "chunk" \in DOMAIN ev.data.error

IsFatalError(ev) == IsError(ev) /\ ~("chunk" \in DOMAIN ev.data.error)

\* The window an event is about; Unset for the whole-run error event.
WindowOf(ev) ==
    IF IsChunkResponse(ev) THEN ev.data.chunk_id
    ELSE IF IsChunkError(ev) THEN ev.data.error.chunk
    ELSE Unset

(* ------------------------------- Init --------------------------------- *)

InitRun ==
    /\ srcExists = [path \in SourcePaths |-> path = PodcastPath]
    /\ segFile = [sp \in SegmentPaths |-> 0]
    /\ audio_path = [p \in Procs |-> PodcastPath]
    /\ delete_on_complete = [p \in Procs |-> FALSE]
    /\ duration = [p \in Procs |-> Unset]
    /\ total_chunks = [p \in Procs |-> Unset]
    /\ i = [p \in Procs |-> Unset]
    /\ result = [p \in Procs |-> NoResult]
    /\ segments = [p \in Procs |-> <<>>]
    /\ events = [p \in Procs |-> <<>>]
    /\ calls = [p \in Procs |-> <<>>]
    /\ closed = [p \in Procs |-> FALSE]

\* One request.
Init ==
    /\ media \in Media
    /\ pc = [p \in Procs |-> IF p = 1 THEN "idle" ELSE "none"]
    /\ InitRun

\* Every request of Procs arrives.
InitConc ==
    /\ media \in ConcMedia
    /\ pc = [p \in Procs |-> "idle"]
    /\ InitRun

(* ----------------------------- handlers ------------------------------- *)

\* transcription.py:14-34  the upload is written to a temporary file of its
\* own and streaming_transcribe(temp_path) is handed to the response.
transcribe_audio(p) ==
    /\ pc[p] = "idle"
    /\ srcExists' = [srcExists EXCEPT ![TempPath(p)] = TRUE]
    /\ audio_path' = [audio_path EXCEPT ![p] = TempPath(p)]
    /\ delete_on_complete' = [delete_on_complete EXCEPT ![p] = TRUE]
    /\ pc' = [pc EXCEPT ![p] = "created"]
    /\ UNCHANGED <<media, segFile, locals, events, calls, closed>>

\* transcription.py:44-62  an existing file, never deleted afterwards.
transcribe_podcast_file(p) ==
    /\ pc[p] = "idle"
    /\ srcExists[PodcastPath]
    /\ audio_path' = [audio_path EXCEPT ![p] = PodcastPath]
    /\ delete_on_complete' = [delete_on_complete EXCEPT ![p] = FALSE]
    /\ pc' = [pc EXCEPT ![p] = "created"]
    /\ UNCHANGED <<files, locals, events, calls, closed>>

(* --------------------- streaming_transcribe: set-up -------------------- *)

Emit(p, payload) == events' = [events EXCEPT ![p] = Append(@, Sse(payload))]

\* transcription.py:72  whisper.load_model("tiny"), on the consumer's first
\* next(); it stands before the try.
LoadModelOk(p) ==
    /\ pc[p] = "created"
    /\ pc' = [pc EXCEPT ![p] = "probe"]
    /\ UNCHANGED <<files, args, locals, events, calls, closed>>

\* The exception leaves the generator: no handler and no finally surround
\* line 72.
LoadModelRaise(p) ==
    /\ pc[p] = "created"
    /\ pc' = [pc EXCEPT ![p] = "crashed"]
    /\ UNCHANGED <<files, args, locals, events, calls, closed>>

\* transcription.py:76-81  probe and plan.
ProbeOk(p) ==
    /\ pc[p] = "probe"
    /\ srcExists[audio_path[p]] /\ media.ok
    /\ duration' = [duration EXCEPT ![p] = media.dur]
    /\ total_chunks' = [total_chunks EXCEPT ![p] = TotalChunks(media.dur)]
    /\ i' = [i EXCEPT ![p] = 0]
    /\ pc' = [pc EXCEPT ![p] = "loop"]
    /\ UNCHANGED <<files, args, result, segments, events, calls, closed>>

\* transcription.py:151-153  the probe raises: the whole-run error event.
ProbeRaise(p) ==
    /\ pc[p] = "probe"
    /\ ~(srcExists[audio_path[p]] /\ media.ok)
    /\ Emit(p, FatalError("probe"))
    /\ pc' = [pc EXCEPT ![p] = "yield_fatal"]
    /\ UNCHANGED <<files, args, locals, calls, closed>>

(* ------------------ streaming_transcribe: the window loop -------------- *)

\* One call of ffmpeg (lines 95-100, with its ss and to) or of the engine
\* (lines 103-106) for the current window, and how it came out.
Call(p, op, ok, res) ==
    calls' = [calls EXCEPT ![p] =
                 Append(@, [op |-> op,
                            chunk |-> i[p],
                            ss |-> start_time(i[p]),
                            to |-> end_time(i[p], duration[p]),
                            ok |-> ok,
                            res |-> res])]

\* transcription.py:146-149  the window's handler: its error event.
RaiseInChunk(p, e) ==
    /\ Emit(p, ChunkError(i[p], e))
    /\ pc' = [pc EXCEPT ![p] = "yield_error"]

\* transcription.py:84  range(total_chunks) is exhausted.
LoopExit(p) ==
    /\ pc[p] = "loop"
    /\ i[p] >= total_chunks[p]
    /\ pc' = [pc EXCEPT ![p] = "finally"]
    /\ UNCHANGED <<files, args, locals, events, calls, closed>>

\* Mutant: the skipped window gets a placeholder event of its own.
LoopSkipEmits(p) ==
    /\ pc[p] = "loop"
    /\ i[p] < total_chunks[p]
    /\ Skipped(i[p], duration[p])
    /\ Emit(p, ChunkResponse(i[p], total_chunks[p], [text |-> ""], <<>>))
    /\ pc' = [pc EXCEPT ![p] = "yield_chunk"]
    /\ UNCHANGED <<files, args, locals, calls, closed>>

\* Mutant: the continue of a loop that forgets to advance its index.
LoopSkipStuck(p) ==
    /\ pc[p] = "loop"
    /\ i[p] < total_chunks[p]
    /\ Skipped(i[p], duration[p])
    /\ UNCHANGED vars

\* transcription.py:85-90  a short window that is not the first: continue.
LoopSkip(p) ==
    /\ pc[p] = "loop"
    /\ i[p] < total_chunks[p]
    /\ Skipped(i[p], duration[p])
    /\ i' = [i EXCEPT ![p] = @ + 1]
    /\ UNCHANGED <<files, args, pc, duration, total_chunks, result, segments, events, calls, closed>>

\* transcription.py:85-92  the window is entered.
LoopEnter(p) ==
    /\ pc[p] = "loop"
    /\ i[p] < total_chunks[p]
    /\ ~Skipped(i[p], duration[p])
    /\ pc' = [pc EXCEPT ![p] = "extract"]
    /\ UNCHANGED <<files, args, locals, events, calls, closed>>

\* transcription.py:94-100  ffmpeg writes the segment file, over any file of
\* that name (overwrite_output=True).
ExtractOk(p) ==
    /\ pc[p] = "extract"
    /\ srcExists[audio_path[p]]
    /\ segFile' = [segFile EXCEPT ![segment_path(audio_path[p], i[p])] = p]
    /\ Call(p, "extract", TRUE, NoResult)
    /\ pc' = [pc EXCEPT ![p] = "transcribe"]
    /\ UNCHANGED <<media, srcExists, args, locals, events, closed>>

\* Mutant: no handler at the window: the failure ends the run.
ExtractRaiseAborts(p) ==
    /\ pc[p] = "extract"
    /\ Call(p, "extract", FALSE, NoResult)
    /\ Emit(p, FatalError("extract"))
    /\ pc' = [pc EXCEPT ![p] = "yield_fatal"]
    /\ UNCHANGED <<files, args, locals, closed>>

\* ffmpeg fails (ffmpeg.Error), having written part of its output or nothing.
ExtractRaise(p) ==
    /\ pc[p] = "extract"
    /\ \E partial \in BOOLEAN :
          segFile' = IF partial
                     THEN [segFile EXCEPT ![segment_path(audio_path[p], i[p])] = p]
                     ELSE segFile
    /\ Call(p, "extract", FALSE, NoResult)
    /\ RaiseInChunk(p, "extract")
    /\ UNCHANGED <<media, srcExists, args, locals, closed>>

\* transcription.py:103-106  the engine reads the segment file.
TranscribeOk(p) ==
    /\ pc[p] = "transcribe"
    /\ segFile[segment_path(audio_path[p], i[p])] # 0
    /\ \E r \in EngineResults :
          /\ result' = [result EXCEPT ![p] = r]
          /\ Call(p, "transcribe", TRUE, r)
    /\ pc' = [pc EXCEPT ![p] = "normalize"]
    /\ UNCHANGED <<files, args, duration, total_chunks, i, segments, events, closed>>

\* Mutant: the engine's failure takes the stream down with it: the handler
\* reports it and leaves the loop.
TranscribeRaiseBreaks(p) ==
    /\ pc[p] = "transcribe"
    /\ Call(p, "transcribe", FALSE, NoResult)
    /\ Emit(p, ChunkError(i[p], "transcribe"))
    /\ i' = [i EXCEPT ![p] = total_chunks[p]]
    /\ pc' = [pc EXCEPT ![p] = "yield_error"]
    /\ UNCHANGED <<files, args, duration, total_chunks, result, segments, closed>>

\* The engine raises: on its own, or because the segment file is gone.
TranscribeRaise(p) ==
    /\ pc[p] = "transcribe"
    /\ Call(p, "transcribe", FALSE, NoResult)
    /\ RaiseInChunk(p, "transcribe")
    /\ UNCHANGED <<files, args, locals, closed>>

\* transcription.py:109-128
NormalizeOk(p) ==
    /\ pc[p] = "normalize"
    /\ ~NormalizeRaises(result[p])
    /\ segments' = [segments EXCEPT ![p] = Normalize(i[p], result[p])]
    /\ pc' = [pc EXCEPT ![p] = "respond"]
    /\ UNCHANGED <<files, args, duration, total_chunks, i, result, events, calls, closed>>

\* Mutant: the window's handler swallows the error and goes on.
NormalizeRaiseSwallowed(p) ==
    /\ pc[p] = "normalize"
    /\ NormalizeRaises(result[p])
    /\ i' = [i EXCEPT ![p] = @ + 1]
    /\ pc' = [pc EXCEPT ![p] = "loop"]
    /\ UNCHANGED <<files, args, duration, total_chunks, result, segments, events, calls, closed>>

NormalizeRaise(p) ==
    /\ pc[p] = "normalize"
    /\ NormalizeRaises(result[p])
    /\ RaiseInChunk(p, "normalize")
    /\ UNCHANGED <<files, args, locals, calls, closed>>

\* transcription.py:131-132  if os.path.exists(segment_path): os.remove(...)
RemoveSegment(p) ==
    segFile' = [segFile EXCEPT ![segment_path(audio_path[p], i[p])] = 0]

\* Mutant: os.remove is given audio_path instead of segment_path.
RespondOkRemovesSource(p) ==
    /\ pc[p] = "respond"
    /\ "text" \in DOMAIN result[p]
    /\ srcExists' = [srcExists EXCEPT ![audio_path[p]] = FALSE]
    /\ Emit(p, ChunkResponse(i[p], total_chunks[p], result[p], segments[p]))
    /\ pc' = [pc EXCEPT ![p] = "yield_chunk"]
    /\ UNCHANGED <<media, segFile, args, locals, calls, closed>>

\* transcription.py:131-144  the segment file is removed, the response is
\* built and yielded.
RespondOk(p) ==
    /\ pc[p] = "respond"
    /\ "text" \in DOMAIN result[p]
    /\ RemoveSegment(p)
    /\ Emit(p, ChunkResponse(i[p], total_chunks[p], result[p], segments[p]))
    /\ pc' = [pc EXCEPT ![p] = "yield_chunk"]
    /\ UNCHANGED <<media, srcExists, args, locals, calls, closed>>

\* result["text"] raises KeyError, after the removal.
RespondRaise(p) ==
    /\ pc[p] = "respond"
    /\ ~("text" \in DOMAIN result[p])
    /\ RemoveSegment(p)
    /\ RaiseInChunk(p, "respond")
    /\ UNCHANGED <<media, srcExists, args, locals, calls, closed>>

(* ------------------- the consumer and the way out ---------------------- *)

\* The consumer's next() after a window's event: the loop goes on.
Resume(p) ==
    /\ pc[p] \in {"yield_chunk", "yield_error"}
    /\ i' = [i EXCEPT ![p] = @ + 1]
    /\ result' = [result EXCEPT ![p] = NoResult]
    /\ segments' = [segments EXCEPT ![p] = <<>>]
    /\ pc' = [pc EXCEPT ![p] = "loop"]
    /\ UNCHANGED <<files, args, duration, total_chunks, events, calls, closed>>

\* The consumer's next() after the whole-run error event of line 153.
ResumeFatal(p) ==
    /\ pc[p] = "yield_fatal"
    /\ pc' = [pc EXCEPT ![p] = "finally"]
    /\ UNCHANGED <<files, args, locals, events, calls, closed>>

\* Mutant: a handler wide enough to take GeneratorExit reports it.
CloseCaught(p) ==
    /\ pc[p] \in {"yield_chunk", "yield_error"}
    /\ closed' = [closed EXCEPT ![p] = TRUE]
    /\ Emit(p, FatalError("GeneratorExit"))
    /\ pc' = [pc EXCEPT ![p] = "yield_fatal"]
    /\ UNCHANGED <<files, args, locals, calls>>

\* The consumer closes the generator where it is suspended: GeneratorExit
\* is raised at the yield; it is no Exception, so neither handler takes it.
Close(p) ==
    /\ pc[p] \in {"yield_chunk", "yield_error", "yield_fatal"}
    /\ closed' = [closed EXCEPT ![p] = TRUE]
    /\ pc' = [pc EXCEPT ![p] = "finally"]
    /\ UNCHANGED <<files, args, locals, events, calls>>

\* Mutant: the finally leaves the source file where it is.
FinallyKeepsSource(p) ==
    /\ pc[p] = "finally"
    /\ pc' = [pc EXCEPT ![p] = "done"]
    /\ UNCHANGED <<files, args, locals, events, calls, closed>>

\* Mutant: the finally of views.py:139-142, which asks for no flag.
FinallyLegacy(p) ==
    /\ pc[p] = "finally"
    /\ srcExists' = [srcExists EXCEPT ![audio_path[p]] = FALSE]
    /\ pc' = [pc EXCEPT ![p] = "done"]
    /\ UNCHANGED <<media, segFile, args, locals, events, calls, closed>>

\* transcription.py:154-157
Finally(p) ==
    /\ pc[p] = "finally"
    /\ srcExists' = IF delete_on_complete[p] /\ srcExists[audio_path[p]]
                    THEN [srcExists EXCEPT ![audio_path[p]] = FALSE]
                    ELSE srcExists
    /\ pc' = [pc EXCEPT ![p] = "done"]
    /\ UNCHANGED <<media, segFile, args, locals, events, calls, closed>>

(* -------------------------- specifications ----------------------------- *)

streaming_transcribe(p) ==
    \/ LoadModelOk(p)
    \/ LoadModelRaise(p)
    \/ ProbeOk(p)
    \/ ProbeRaise(p)
    \/ LoopExit(p)
    \/ LoopSkip(p)
    \/ LoopEnter(p)
    \/ ExtractOk(p)
    \/ ExtractRaise(p)
    \/ TranscribeOk(p)
    \/ TranscribeRaise(p)
    \/ NormalizeOk(p)
    \/ NormalizeRaise(p)
    \/ RespondOk(p)
    \/ RespondRaise(p)
    \/ Resume(p)
    \/ ResumeFatal(p)
    \/ Close(p)
    \/ Finally(p)

Step(p) == transcribe_audio(p) \/ transcribe_podcast_file(p) \/ streaming_transcribe(p)

Next == \E p \in Procs : Step(p)

Spec == Init /\ [][Next]_vars

\* Several requests at once.
SpecConc == InitConc /\ [][Next]_vars

\* Every call returns or raises and the consumer goes on reading or closes.
LiveSpec == Init /\ [][Next]_vars /\ \A p \in Procs : WF_vars(Step(p))

(* ------------------------ reading the history ------------------------- *)

\* The windows of a request's events, in the order of emission.
EventWindows(p) == [n \in 1 .. Len(events[p]) |-> WindowOf(events[p][n])]

Emitted(p) == {WindowOf(events[p][n]) : n \in 1 .. Len(events[p])}

EventsOf(p, w) == {n \in 1 .. Len(events[p]) : WindowOf(events[p][n]) = w}

StrictlyIncreasing(s) == \A a, b \in 1 .. Len(s) : a < b => s[a] < s[b]

\* The generator is inside the try of one window.
InWindow(p) == pc[p] \in {"extract", "transcribe", "normalize", "respond"}

\* Window w of request p is behind it.
Over(p, w) == w < i[p] \/ (w = i[p] /\ ~InWindow(p))

Planned(p) == total_chunks[p] # Unset

\* The planned windows the skip rule leaves.
NonSkipped(p) == {w \in 0 .. (total_chunks[p] - 1) : ~Skipped(w, duration[p])}

\* Window w has had ffmpeg or the engine called for it.
Started(p) == {calls[p][n].chunk : n \in 1 .. Len(calls[p])}

\* Something raised inside the try of window w: the extraction, the engine,
\* the normalization of what the engine returned, or the use of its text.
Raised(p, w) ==
    \E n \in 1 .. Len(calls[p]) :
        /\ calls[p][n].chunk = w
        /\ \/ ~calls[p][n].ok
           \/ /\ calls[p][n].op = "transcribe"
              /\ NormalizeRaises(calls[p][n].res) \/ ~("text" \in DOMAIN calls[p][n].res)

\* The engine's results for window w.
Returned(p, w) ==
    {calls[p][n].res : n \in {m \in 1 .. Len(calls[p]) :
        calls[p][m].chunk = w /\ calls[p][m].op = "transcribe" /\ calls[p][m].ok}}

(* ------------------------------- C1 ----------------------------------- *)

\* C1: events are emitted in strictly increasing window order; while window
\* i is in progress every non-skipped window before it has its event, and
\* at most one window (the current one) has been started without an event.
C1_InOrderOneAtATime ==
    \A p \in Procs :
        /\ StrictlyIncreasing(EventWindows(p))
        /\ InWindow(p) =>
              \A w \in 0 .. (i[p] - 1) : ~Skipped(w, duration[p]) => w \in Emitted(p)
        /\ \A n \in 1 .. Len(calls[p]) :
              \/ calls[p][n].chunk \in Emitted(p)
              \/ calls[p][n].chunk = i[p] /\ InWindow(p)
        /\ \A a, b \in 1 .. Len(calls[p]) : a < b => calls[p][a].chunk <= calls[p][b].chunk

\* C1 witness: the third window is being transcribed after an error event
\* and a success event.
C1_Witness ==
    \E p \in Procs :
        /\ pc[p] = "transcribe" /\ i[p] = 2
        /\ Len(events[p]) = 2
        /\ IsChunkError(events[p][1]) /\ IsChunkResponse(events[p][2])

(* ------------------------------- C2 ----------------------------------- *)

\* C2: a window in which something raised gets one event that carries only
\* an error field, and the loop goes on: every other non-skipped window gets
\* its success event, built from what the engine returned for it.
C2_FailureIsolation ==
    \A p \in Procs :
        /\ \A w \in Started(p) :
              (Raised(p, w) /\ Over(p, w)) =>
                  /\ EventsOf(p, w) # {}
                  /\ \A n \in EventsOf(p, w) : DOMAIN events[p][n].data = {"error"}
        /\ \A w \in Started(p) :
              (~Raised(p, w) /\ Over(p, w)) =>
                  \A n \in EventsOf(p, w) :
                      \E r \in Returned(p, w) :
                          events[p][n] =
                              Sse(ChunkResponse(w, TotalChunks(media.dur), r, Normalize(w, r)))
        /\ \A w \in Started(p) : (~Raised(p, w) /\ Over(p, w)) => EventsOf(p, w) # {}
        /\ (pc[p] = "done" /\ ~closed[p] /\ Planned(p)) => Emitted(p) = NonSkipped(p)

\* C2 witness: a finished run of three windows whose second window raised
\* while the first and the third succeeded.
C2_Witness ==
    \E p \in Procs :
        /\ pc[p] = "done" /\ ~closed[p]
        /\ Len(events[p]) = 3
        /\ IsChunkResponse(events[p][1])
        /\ IsChunkError(events[p][2])
        /\ IsChunkResponse(events[p][3]) /\ events[p][3].data.segments # <<>>

(* ------------------------------- C3 ----------------------------------- *)

\* C3: a run read to its end whose probe succeeded has exactly one event for
\* each planned window that is not skipped and none for a skipped one.
C3_OneEventPerWindow ==
    \A p \in Procs :
        (pc[p] = "done" /\ ~closed[p] /\ Planned(p)) =>
            /\ \A w \in NonSkipped(p) : Cardinality(EventsOf(p, w)) = 1
            /\ \A w \in 0 .. (total_chunks[p] - 1) : Skipped(w, duration[p]) => EventsOf(p, w) = {}
            /\ Len(events[p]) = Cardinality(NonSkipped(p))

\* C3 witness: three windows planned, the last one skipped, two events, one
\* of them an error event.
C3_Witness ==
    \E p \in Procs :
        /\ pc[p] = "done" /\ ~closed[p]
        /\ total_chunks[p] = 3 /\ Skipped(2, duration[p])
        /\ Len(events[p]) = 2
        /\ IsChunkError(events[p][1]) /\ IsChunkResponse(events[p][2])

(* ------------------------------- C4 ----------------------------------- *)

\* The probe of request p has failed.
ProbeFailed(p) == pc[p] \in {"yield_fatal", "finally", "done"} /\ ~Planned(p)

\* C4: after a failed probe the stream holds exactly the whole-run error
\* event and neither ffmpeg nor the engine was called; the whole-run error
\* event appears only in such a run, never after a window's event.
C4_FatalOnlyBeforeLoop ==
    \A p \in Procs :
        /\ ProbeFailed(p) =>
              /\ Len(events[p]) = 1 /\ IsFatalError(events[p][1])
              /\ calls[p] = <<>>
        /\ (\E n \in 1 .. Len(events[p]) : IsFatalError(events[p][n])) =>
              /\ ProbeFailed(p)
              /\ Len(events[p]) = 1
              /\ calls[p] = <<>>

\* C4 witness: an upload whose probe failed has ended with the one event.
C4_Witness ==
    \E p \in Procs :
        /\ pc[p] = "done" /\ ~closed[p] /\ ~media.ok
        /\ Len(events[p]) = 1 /\ IsFatalError(events[p][1])
        /\ delete_on_complete[p]

(* ------------------------------- C5 ----------------------------------- *)

SegmentsLeft(p) ==
    {k \in 0 .. (MaxChunks - 1) : segFile[segment_path(audio_path[p], k)] # 0}

\* C5: when the loop advances past a window, whether the window succeeded
\* or failed, its segment file is gone; after the run no segment file is left.
C5_NoSegmentLeft ==
    \A p \in Procs :
        /\ pc[p] = "loop" => \A k \in SegmentsLeft(p) : k >= i[p]
        /\ pc[p] = "done" => SegmentsLeft(p) = {}

(* ------------------------------- C6 ----------------------------------- *)

\* The generator of request p ran through its finally.
Ended(p) == pc[p] = "done"

\* C6: at the end of a run the source file is absent exactly if
\* delete_on_complete was true, however many windows failed: the upload of
\* transcribe_audio is deleted, the file of transcribe_podcast_file stays.
C6_SourceDeletedIffPolicy ==
    \A p \in Procs :
        /\ Ended(p) => (~srcExists[audio_path[p]] <=> delete_on_complete[p])
        /\ Ended(p) => (delete_on_complete[p] <=> audio_path[p] = TempPath(p))
        /\ (pc[p] \notin {"none", "idle"} /\ ~delete_on_complete[p]) => srcExists[audio_path[p]]

\* C6 witness: an upload with a failed window has ended and its file is gone.
C6_Witness ==
    \E p \in Procs :
        /\ Ended(p) /\ ~closed[p] /\ delete_on_complete[p]
        /\ \E n \in 1 .. Len(events[p]) : IsChunkError(events[p][n])
        /\ ~srcExists[audio_path[p]]

(* ------------------------------- C7 ----------------------------------- *)

\* The run of request p is over without a plan: something failed before the
\* window loop.
FailedBeforeLoop(p) == pc[p] \in {"done", "crashed"} /\ ~closed[p] /\ ~Planned(p)

\* C7: whatever fails before the window loop, loading the model included,
\* the run ends with exactly one error event and, if delete_on_complete, with
\* the source file deleted.
C7_SetupFailureReportedAndCleaned ==
    \A p \in Procs :
        FailedBeforeLoop(p) =>
            /\ Len(events[p]) = 1 /\ IsError(events[p][1])
            /\ delete_on_complete[p] => ~srcExists[audio_path[p]]

(* ------------------------------- C8 ----------------------------------- *)

\* C8: once the consumer has closed the stream at an emitted event, no call
\* of ffmpeg or the engine and no event follows; the generator goes straight
\* to its finally, where the source file is deleted iff delete_on_complete.
C8_CloseStopsWork ==
    /\ [][\A p \in Procs :
            closed'[p] =>
                /\ events'[p] = events[p]
                /\ calls'[p] = calls[p]
                /\ pc'[p] \in {"finally", "done"}]_vars
    /\ [](\A p \in Procs :
            (closed[p] /\ pc[p] = "done") =>
                (~srcExists[audio_path[p]] <=> delete_on_complete[p]))

\* C8 witness: an upload of three windows was closed at its first event and
\* has ended: one event, one window started, the file gone.
C8_Witness ==
    \E p \in Procs :
        /\ closed[p] /\ pc[p] = "done"
        /\ total_chunks[p] = 3 /\ Len(events[p]) = 1 /\ Started(p) = {0}
        /\ delete_on_complete[p] /\ ~srcExists[audio_path[p]]

(* ------------------------------- C9 ----------------------------------- *)

\* The segment file request p works on.
OwnSegment(p) == segFile[segment_path(audio_path[p], i[p])]

\* C9: no request overwrites, reads or deletes a segment file of another
\* request: the file it is about to overwrite or remove is absent or its own,
\* and the file it is about to hand to the engine is the one it wrote.
C9_NoForeignSegment ==
    \A p \in Procs :
        /\ pc[p] = "extract" => OwnSegment(p) \in {0, p}
        /\ pc[p] = "transcribe" => OwnSegment(p) = p
        /\ pc[p] = "respond" => OwnSegment(p) \in {0, p}

(* ------------------------------- C10 ---------------------------------- *)

ChunkTicks == chunk_duration * Scale

\* The ffmpeg runs of request p, as logged.
Extractions(p) == {n \in 1 .. Len(calls[p]) : calls[p][n].op = "extract"}

\* C11: total_chunks is floor(d / c) + 1; window k spans
\* [k*c, min((k+1)*c, d)); consecutive windows meet without gap or overlap,
\* the first starts at 0, the last ends at d, and every ffmpeg run is given
\* the span of its window.
C11_PlanCoversDuration ==
    \A p \in Procs :
        Planned(p) =>
            /\ duration[p] = media.dur
            /\ (total_chunks[p] - 1) * ChunkTicks <= duration[p]
            /\ duration[p] < total_chunks[p] * ChunkTicks
            /\ start_time(0) = 0
            /\ end_time(total_chunks[p] - 1, duration[p]) = duration[p]
            /\ \A k \in 0 .. (total_chunks[p] - 1) :
                  /\ start_time(k) = k * ChunkTicks
                  /\ end_time(k, duration[p]) = Min((k + 1) * ChunkTicks, duration[p])
                  /\ start_time(k) <= end_time(k, duration[p])
                  /\ k < total_chunks[p] - 1 => end_time(k, duration[p]) = start_time(k + 1)
            /\ \A n \in Extractions(p) :
                  /\ calls[p][n].chunk \in 0 .. (total_chunks[p] - 1)
                  /\ calls[p][n].ss = calls[p][n].chunk * ChunkTicks
                  /\ calls[p][n].to = Min((calls[p][n].chunk + 1) * ChunkTicks, duration[p])

\* C11 witness: a source of 61 s is planned as three windows and ffmpeg has
\* been run for the last one, from 60 s to 61 s.
C11_Witness ==
    \E p \in Procs :
        /\ Planned(p) /\ total_chunks[p] = 3
        /\ duration[p] = 2 * ChunkTicks + Scale
        /\ \E n \in Extractions(p) :
              calls[p][n].chunk = 2 /\ calls[p][n].ss = 2 * ChunkTicks /\ calls[p][n].to = duration[p]


(* ------------------------------- C12 ---------------------------------- *)

\* C12: every window ffmpeg is run for has start < end, and a source whose
\* duration is zero is refused by the probe: it is never planned.
C12_ExtractedWindowsNonEmpty ==
    \A p \in Procs :
        /\ \A n \in Extractions(p) : calls[p][n].ss < calls[p][n].to
        /\ (media.ok /\ media.dur = 0) => ~Planned(p)

(* ------------------------------- C13 ---------------------------------- *)

\* The span of window w of request p, in ticks.
Span(p, w) == Min((w + 1) * ChunkTicks, duration[p]) - w * ChunkTicks

\* C13: a window shorter than one second that is not the first is skipped:
\* ffmpeg and the engine are never called for it, no segment file is written
\* for it and it has no event; the first window is never skipped, however
\* short: once the loop is past it, ffmpeg has been run for it and it has
\* its event.
C13_ShortWindowSkipped ==
    \A p \in Procs :
        Planned(p) =>
            /\ \A w \in 1 .. (total_chunks[p] - 1) :
                  Span(p, w) < Scale =>
                      /\ w \notin Started(p)
                      /\ w \notin Emitted(p)
                      /\ segFile[segment_path(audio_path[p], w)] = 0
                      /\ ~(i[p] = w /\ InWindow(p))
            /\ (i[p] > 0 \/ pc[p] \in {"finally", "done"}) =>
                  (0 \in Started(p) /\ 0 \in Emitted(p))

\* C13 witness: a run of 0.5 s has ended with an event for its only, short
\* window.
C13_Witness ==
    \E p \in Procs :
        /\ pc[p] = "done" /\ ~closed[p]
        /\ total_chunks[p] = 1 /\ duration[p] > 0 /\ Span(p, 0) < Scale
        /\ Len(events[p]) = 1 /\ IsChunkResponse(events[p][1])

\* A second case of C13: the third window of a source of 60.5 s has been
\* skipped and the run has ended with two windows started.
C13_SkippedCase ==
    \E p \in Procs :
        /\ pc[p] = "done" /\ ~closed[p]
        /\ total_chunks[p] = 3 /\ Span(p, 2) < Scale /\ Span(p, 2) > 0
        /\ Started(p) = {0, 1} /\ Emitted(p) = {0, 1}


(* ------------------------------- C14 ---------------------------------- *)

\* The success events of request p.
Responses(p) == {n \in 1 .. Len(events[p]) : IsChunkResponse(events[p][n])}

\* floor(d / c) + 1 for the source under transcription, by its defining
\* inequalities.
IsPlanCount(t) == (t - 1) * ChunkTicks <= media.dur /\ media.dur < t * ChunkTicks

\* C14: every success event carries the same total_chunks = floor(d/c) + 1,
\* skipped windows counted, and is_final exactly if its window is
\* total_chunks - 1; a source of 65 s read to the end without failure gives
\* three events, final only the third.
C14_FinalFlagIsLastIndex ==
    \A p \in Procs :
        /\ \A n \in Responses(p) :
              /\ IsPlanCount(events[p][n].data.total_chunks)
              /\ events[p][n].data.is_final <=>
                    (events[p][n].data.chunk_id = events[p][n].data.total_chunks - 1)
        /\ (pc[p] = "done" /\ ~closed[p] /\ Planned(p) /\ duration[p] = 65 * Scale) =>
              /\ Len(events[p]) = 3
              /\ \A n \in Responses(p) :
                    /\ events[p][n].data.total_chunks = 3
                    /\ events[p][n].data.chunk_id = n - 1
                    /\ events[p][n].data.is_final <=> (n = 3)

\* C14 witness: 65 s, three success events, the flags FALSE, FALSE, TRUE.
C14_Witness ==
    \E p \in Procs :
        /\ pc[p] = "done" /\ ~closed[p] /\ duration[p] = 65 * Scale
        /\ Responses(p) = {1, 2, 3}
        /\ ~events[p][1].data.is_final /\ ~events[p][2].data.is_final
        /\ events[p][3].data.is_final

(* ------------------------------- C15 ---------------------------------- *)

\* The last planned window of request p falls under the skip rule.
LastWindowShort(p) ==
    /\ Planned(p)
    /\ total_chunks[p] > 1
    /\ Span(p, total_chunks[p] - 1) < Scale

\* C15: when the last planned window is skipped no event of the run carries
\* is_final = TRUE; a source just over 30 s (30.5 s) read to its end gives
\* exactly one event, for window 0, and a success event there is not final.
C15_SkippedLastLeavesNoFinal ==
    \A p \in Procs :
        /\ LastWindowShort(p) => \A n \in Responses(p) : ~events[p][n].data.is_final
        /\ (pc[p] = "done" /\ ~closed[p] /\ Planned(p) /\ duration[p] = ChunkTicks + 1) =>
              /\ Len(events[p]) = 1
              /\ WindowOf(events[p][1]) = 0
              /\ IsChunkResponse(events[p][1]) => ~events[p][1].data.is_final

\* C15 witness: the run of 30.5 s has ended with its one success event,
\* total_chunks = 2, not final.
C15_Witness ==
    \E p \in Procs :
        /\ pc[p] = "done" /\ ~closed[p] /\ duration[p] = ChunkTicks + 1
        /\ Len(events[p]) = 1 /\ IsChunkResponse(events[p][1])
        /\ events[p][1].data.total_chunks = 2
        /\ ~events[p][1].data.is_final


(* ------------------------------- C16 ---------------------------------- *)

\* The emitted segments es are the engine's segments rs moved by offset:
\* as many, in the same order, with the same text.
Rebased(es, rs, offset) ==
    /\ Len(es) = Len(rs)
    /\ \A j \in 1 .. Len(rs) :
          /\ es[j].text = rs[j].text
          /\ es[j].start = rs[j].start + offset
          /\ es[j].end = rs[j].end + offset

\* C16: the segments of every success event are the segments the engine
\* returned for that window, in number and order, each with its text and
\* with start and end moved by the start of the window.
C16_SegmentsRebased ==
    \A p \in Procs :
        \A n \in Responses(p) :
            \E r \in Returned(p, events[p][n].data.chunk_id) :
                Rebased(events[p][n].data.segments, r.segments,
                        events[p][n].data.chunk_id * ChunkTicks)

\* C16 witness: the event of the third window holds two segments, the first
\* from 60 s to 61.5 s.
C16_Witness ==
    \E p \in Procs :
        \E n \in Responses(p) :
            /\ events[p][n].data.chunk_id = 2
            /\ Len(events[p][n].data.segments) = 2
            /\ events[p][n].data.segments[1].start = 2 * ChunkTicks
            /\ events[p][n].data.segments[1].end = 2 * ChunkTicks + Segment0.end

(* ------------------------------- C17 ---------------------------------- *)

\* The emitted segments of request p: (event, position) pairs.
EmittedSegments(p) ==
    UNION {{<<n, j>> : j \in 1 .. Len(events[p][n].data.segments)} : n \in Responses(p)}

SegmentAt(p, x) == events[p][x[1]].data.segments[x[2]]

\* The ids of one engine result are pairwise different.
UniqueLocalIds(r) ==
    \A a, b \in 1 .. Len(r.segments) : a # b => r.segments[a].id # r.segments[b].id

\* C17: the engine's ids being unique within each result, no two emitted
\* segments of a run have the same id.
C17_SegmentIdsUnique ==
    \A p \in Procs :
        (\A n \in 1 .. Len(calls[p]) :
            (calls[p][n].op = "transcribe" /\ calls[p][n].ok /\ ~NormalizeRaises(calls[p][n].res))
                => UniqueLocalIds(calls[p][n].res))
        => \A x, y \in EmittedSegments(p) : x # y => SegmentAt(p, x).id # SegmentAt(p, y).id

\* C17 witness: three events with two segments each, six ids.
C17_Witness ==
    \E p \in Procs :
        /\ Responses(p) = {1, 2, 3}
        /\ Cardinality(EmittedSegments(p)) = 6
        /\ Cardinality({SegmentAt(p, x).id : x \in EmittedSegments(p)}) = 6

(* ------------------------------- C18 ---------------------------------- *)

\* The emitted words ews are the engine's words rws moved by offset.
WordsRebased(ews, rws, offset) ==
    /\ Len(ews) = Len(rws)
    /\ \A j \in 1 .. Len(rws) :
          /\ ews[j].start = rws[j].start + offset
          /\ ews[j].end = rws[j].end + offset
          /\ "word" \in DOMAIN rws[j] => ews[j].word = rws[j].word

\* The engine gave segment seg a word list that is not empty.
HasWords(seg) == "words" \in DOMAIN seg /\ Len(seg.words) > 0

\* C18: an emitted segment has a words entry exactly if the engine supplied
\* a non-empty word list for it; the words are then as many, in the same
\* order, moved by the start of the window; without word data from the
\* engine the emitted segment has no words entry at all.
C18_WordsOnlyWhenSupplied ==
    \A p \in Procs :
        \A n \in Responses(p) :
            \E r \in Returned(p, events[p][n].data.chunk_id) :
                /\ Len(events[p][n].data.segments) = Len(r.segments)
                /\ \A j \in 1 .. Len(r.segments) :
                      /\ ("words" \in DOMAIN events[p][n].data.segments[j]) <=> HasWords(r.segments[j])
                      /\ HasWords(r.segments[j]) =>
                            WordsRebased(events[p][n].data.segments[j].words,
                                         r.segments[j].words,
                                         events[p][n].data.chunk_id * ChunkTicks)

\* C18 witness: in the event of the second window the first segment has its
\* two words, the first from 30 s, and the second segment has none.
C18_Witness ==
    \E p \in Procs :
        \E n \in Responses(p) :
            /\ events[p][n].data.chunk_id = 1
            /\ Len(events[p][n].data.segments) = 2
            /\ Len(events[p][n].data.segments[1].words) = 2
            /\ events[p][n].data.segments[1].words[1].start = ChunkTicks
            /\ ~("words" \in DOMAIN events[p][n].data.segments[2])


(* ------------------------------- C19 ---------------------------------- *)

\* The generator of request p has started and has not reached its finally.
Running(p) ==
    pc[p] \in {"created", "probe", "loop", "extract", "transcribe", "normalize", "respond",
               "yield_chunk", "yield_error", "yield_fatal"}

\* C19: while a run has windows to process its source file exists and holds
\* what it held; a source file disappears only in the finally of the run it
\* belongs to, and then only if delete_on_complete.
C19_SourceUntouchedInLoop ==
    /\ [](\A p \in Procs : Running(p) => srcExists[audio_path[p]])
    /\ [][media' = media]_vars
    /\ [][\A path \in SourcePaths :
            (srcExists[path] /\ ~srcExists'[path]) =>
                \E p \in Procs :
                    /\ audio_path[p] = path /\ delete_on_complete[p]
                    /\ pc[p] = "finally" /\ pc'[p] = "done"
                    /\ events'[p] = events[p]]_vars

\* C19 witness: an upload of two windows has ended after its two events and
\* only then is its file gone.
C19_Witness ==
    \E p \in Procs :
        /\ pc[p] = "done" /\ ~closed[p] /\ delete_on_complete[p]
        /\ total_chunks[p] = 2 /\ Len(events[p]) = 2 /\ Started(p) = {0, 1}
        /\ ~srcExists[audio_path[p]]

(* ------------------------------- C20 ---------------------------------- *)

\* The windows of request p the loop has passed without ffmpeg, the engine
\* or an event.
PassedOver(p) ==
    {w \in 0 .. (total_chunks[p] - 1) : w < i[p] /\ w \notin Started(p) /\ w \notin Emitted(p)}

\* C20: every window before the last planned one spans exactly
\* chunk_duration and is not skipped; only window total_chunks - 1 can be
\* skipped, so at most one window of a run is.
C20_OnlyLastWindowSkipped ==
    \A p \in Procs :
        Planned(p) =>
            /\ \A w \in 0 .. (total_chunks[p] - 2) :
                  /\ Span(p, w) = ChunkTicks
                  /\ ~Skipped(w, duration[p])
            /\ PassedOver(p) \subseteq {total_chunks[p] - 1}
            /\ Cardinality(PassedOver(p)) <= 1
            /\ \A n \in Extractions(p) :
                  calls[p][n].chunk < total_chunks[p] - 1 =>
                      calls[p][n].to - calls[p][n].ss = ChunkTicks

\* C20 witness: the loop of a source of 60.5 s has passed its third window,
\* the only one skipped.
C20_Witness ==
    \E p \in Procs :
        /\ Planned(p) /\ total_chunks[p] = 3
        /\ pc[p] = "loop" /\ i[p] = 3
        /\ PassedOver(p) = {2}
        /\ Span(p, 2) > 0


(* ------------------------------- C21 ---------------------------------- *)

\* The success events of request p that carry is_final = TRUE.
Finals(p) == {n \in Responses(p) : events[p][n].data.is_final}

\* C21: at most one event of a run carries is_final = TRUE, and such an
\* event is the last of the stream: no success or error event follows it.
C21_FinalIsLastEvent ==
    \A p \in Procs :
        /\ Cardinality(Finals(p)) <= 1
        /\ \A n \in Finals(p) : n = Len(events[p])

\* C21 witness: a run of three windows has ended; its third event is final
\* and follows a success event and an error event.
C21_Witness ==
    \E p \in Procs :
        /\ pc[p] = "done" /\ ~closed[p]
        /\ Len(events[p]) = 3
        /\ IsChunkResponse(events[p][1]) /\ IsChunkError(events[p][2])
        /\ Finals(p) = {3}


(* ============ views.py: the legacy streaming_transcribe ================ *)

\* views.py:65  chunk_duration = 30
legacy_chunk_duration == 30

\* views.py:66  total_chunks = int(duration / chunk_duration) + 1
legacy_TotalChunks(d) == (d \div (legacy_chunk_duration * Scale)) + 1

\* views.py:70  start_time = i * chunk_duration   (in ticks)
legacy_start_time(k) == k * legacy_chunk_duration * Scale

\* views.py:71  end_time = min(start_time + chunk_duration, duration)
legacy_end_time(k, d) == Min(legacy_start_time(k) + legacy_chunk_duration * Scale, d)

\* views.py:74  if end_time - start_time < 1.0 and i > 0: continue
legacy_Skipped(k, d) == legacy_end_time(k, d) - legacy_start_time(k) < Scale /\ k > 0

\* views.py:79  f"{audio_path}_segment_{i}.wav"
legacy_segment_path(path, k) == <<path, k>>

\* views.py:97  f"{i}-{segment['id']}"
LegacyFormatId(k, sid) == Decimal(k) \o <<"-">> \o Decimal(sid)

\* views.py:106-110  one word, rebased; .get supplies the defaults
LegacyAdjustWord(w, k) ==
    [word |-> IF "word" \in DOMAIN w THEN w.word ELSE "",
     start |-> (IF "start" \in DOMAIN w THEN w.start ELSE 0) + legacy_start_time(k),
     end |-> (IF "end" \in DOMAIN w THEN w.end ELSE 0) + legacy_start_time(k)]

\* views.py:96-112  one adjusted segment of window k
LegacyAdjustSegment(seg, k) ==
    IF "words" \in DOMAIN seg /\ seg.words # <<>>
    THEN [id |-> LegacyFormatId(k, seg.id),
          text |-> seg.text,
          start |-> seg.start + legacy_start_time(k),
          end |-> seg.end + legacy_start_time(k),
          words |-> [n \in 1 .. Len(seg.words) |-> LegacyAdjustWord(seg.words[n], k)]]
    ELSE [id |-> LegacyFormatId(k, seg.id),
          text |-> seg.text,
          start |-> seg.start + legacy_start_time(k),
          end |-> seg.end + legacy_start_time(k)]

\* views.py:94-113  the loop over result["segments"]
LegacyNormalize(k, r) ==
    [n \in 1 .. Len(r.segments) |-> LegacyAdjustSegment(r.segments[n], k)]

\* The subscripts of views.py:95-100 raise KeyError on a result that lacks them.
LegacyNormalizeRaises(r) ==
    \/ "segments" \notin DOMAIN r
    \/ \E n \in 1 .. Len(r.segments) :
          ~({"id", "text", "start", "end"} \subseteq DOMAIN r.segments[n])

\* views.py:129,134,138  f"data: {json.dumps(payload)}\n\n"
LegacySse(payload) == [data |-> payload]

\* views.py:120-126  chunk_response
LegacyChunkResponse(k, total, r, segs) ==
    [chunk_id |-> k,
     total_chunks |-> total,
     chunk_text |-> r.text,
     segments |-> segs,
     is_final |-> (k = total - 1)]

\* views.py:133-134  {'error': f"Error processing chunk {i}: {str(e)}"}
LegacyChunkError(k, e) == [error |-> [chunk |-> k, cause |-> e]]

\* views.py:138  {'error': str(e)}
LegacyFatalError(e) == [error |-> [cause |-> e]]

LegacyEmit(p, payload) == events' = [events EXCEPT ![p] = Append(@, LegacySse(payload))]


\* The legacy generator has the one parameter audio_path; delete_on_complete
\* is no name of its own and none of its steps reads or writes it.

\* views.py:57  whisper.load_model("tiny"), before the try of line 59.
LegacyLoadModelOk(p) ==
    /\ pc[p] = "created"
    /\ pc' = [pc EXCEPT ![p] = "probe"]
    /\ UNCHANGED <<files, args, locals, events, calls, closed>>

\* The exception of line 57 leaves the generator.
LegacyLoadModelRaise(p) ==
    /\ pc[p] = "created"
    /\ pc' = [pc EXCEPT ![p] = "crashed"]
    /\ UNCHANGED <<files, args, locals, events, calls, closed>>

\* views.py:61-66  probe and plan.
LegacyProbeOk(p) ==
    /\ pc[p] = "probe"
    /\ srcExists[audio_path[p]] /\ media.ok
    /\ duration' = [duration EXCEPT ![p] = media.dur]
    /\ total_chunks' = [total_chunks EXCEPT ![p] = legacy_TotalChunks(media.dur)]
    /\ i' = [i EXCEPT ![p] = 0]
    /\ pc' = [pc EXCEPT ![p] = "loop"]
    /\ UNCHANGED <<files, args, result, segments, events, calls, closed>>

\* views.py:136-138  the probe raises: the whole-run error event.
LegacyProbeRaise(p) ==
    /\ pc[p] = "probe"
    /\ ~(srcExists[audio_path[p]] /\ media.ok)
    /\ LegacyEmit(p, LegacyFatalError("probe"))
    /\ pc' = [pc EXCEPT ![p] = "yield_fatal"]
    /\ UNCHANGED <<files, args, locals, calls, closed>>

\* One call of ffmpeg (views.py:80-85) or of the engine (views.py:88-91).
LegacyCall(p, op, ok, res) ==
    calls' = [calls EXCEPT ![p] =
                 Append(@, [op |-> op,
                            chunk |-> i[p],
                            ss |-> legacy_start_time(i[p]),
                            to |-> legacy_end_time(i[p], duration[p]),
                            ok |-> ok,
                            res |-> res])]

\* views.py:131-134  the window's handler: its error event.
LegacyRaiseInChunk(p, e) ==
    /\ LegacyEmit(p, LegacyChunkError(i[p], e))
    /\ pc' = [pc EXCEPT ![p] = "yield_error"]

\* views.py:69  range(total_chunks) is exhausted.
LegacyLoopExit(p) ==
    /\ pc[p] = "loop"
    /\ i[p] >= total_chunks[p]
    /\ pc' = [pc EXCEPT ![p] = "finally"]
    /\ UNCHANGED <<files, args, locals, events, calls, closed>>

\* views.py:70-75  a short window that is not the first: continue.
LegacyLoopSkip(p) ==
    /\ pc[p] = "loop"
    /\ i[p] < total_chunks[p]
    /\ legacy_Skipped(i[p], duration[p])
    /\ i' = [i EXCEPT ![p] = @ + 1]
    /\ UNCHANGED <<files, args, pc, duration, total_chunks, result, segments, events, calls, closed>>

\* views.py:70-77  the window is entered.
LegacyLoopEnter(p) ==
    /\ pc[p] = "loop"
    /\ i[p] < total_chunks[p]
    /\ ~legacy_Skipped(i[p], duration[p])
    /\ pc' = [pc EXCEPT ![p] = "extract"]
    /\ UNCHANGED <<files, args, locals, events, calls, closed>>

\* views.py:79-85  ffmpeg writes the segment file (overwrite_output=True).
LegacyExtractOk(p) ==
    /\ pc[p] = "extract"
    /\ srcExists[audio_path[p]]
    /\ segFile' = [segFile EXCEPT ![legacy_segment_path(audio_path[p], i[p])] = p]
    /\ LegacyCall(p, "extract", TRUE, NoResult)
    /\ pc' = [pc EXCEPT ![p] = "transcribe"]
    /\ UNCHANGED <<media, srcExists, args, locals, events, closed>>

\* ffmpeg fails, having written part of its output or nothing.
LegacyExtractRaise(p) ==
    /\ pc[p] = "extract"
    /\ \E partial \in BOOLEAN :
          segFile' = IF partial
                     THEN [segFile EXCEPT ![legacy_segment_path(audio_path[p], i[p])] = p]
                     ELSE segFile
    /\ LegacyCall(p, "extract", FALSE, NoResult)
    /\ LegacyRaiseInChunk(p, "extract")
    /\ UNCHANGED <<media, srcExists, args, locals, closed>>

\* views.py:88-91  the engine reads the segment file.
LegacyTranscribeOk(p) ==
    /\ pc[p] = "transcribe"
    /\ segFile[legacy_segment_path(audio_path[p], i[p])] # 0
    /\ \E r \in EngineResults :
          /\ result' = [result EXCEPT ![p] = r]
          /\ LegacyCall(p, "transcribe", TRUE, r)
    /\ pc' = [pc EXCEPT ![p] = "normalize"]
    /\ UNCHANGED <<files, args, duration, total_chunks, i, segments, events, closed>>

\* The engine raises: on its own, or because the segment file is gone.
LegacyTranscribeRaise(p) ==
    /\ pc[p] = "transcribe"
    /\ LegacyCall(p, "transcribe", FALSE, NoResult)
    /\ LegacyRaiseInChunk(p, "transcribe")
    /\ UNCHANGED <<files, args, locals, closed>>

\* views.py:94-113
LegacyNormalizeOk(p) ==
    /\ pc[p] = "normalize"
    /\ ~LegacyNormalizeRaises(result[p])
    /\ segments' = [segments EXCEPT ![p] = LegacyNormalize(i[p], result[p])]
    /\ pc' = [pc EXCEPT ![p] = "respond"]
    /\ UNCHANGED <<files, args, duration, total_chunks, i, result, events, calls, closed>>

LegacyNormalizeRaise(p) ==
    /\ pc[p] = "normalize"
    /\ LegacyNormalizeRaises(result[p])
    /\ LegacyRaiseInChunk(p, "normalize")
    /\ UNCHANGED <<files, args, locals, calls, closed>>

\* views.py:116-117  if os.path.exists(segment_path): os.remove(segment_path)
LegacyRemoveSegment(p) ==
    segFile' = [segFile EXCEPT ![legacy_segment_path(audio_path[p], i[p])] = 0]

\* views.py:116-129  the segment file is removed, the response is built and
\* yielded.
LegacyRespondOk(p) ==
    /\ pc[p] = "respond"
    /\ "text" \in DOMAIN result[p]
    /\ LegacyRemoveSegment(p)
    /\ LegacyEmit(p, LegacyChunkResponse(i[p], total_chunks[p], result[p], segments[p]))
    /\ pc' = [pc EXCEPT ![p] = "yield_chunk"]
    /\ UNCHANGED <<media, srcExists, args, locals, calls, closed>>

\* result["text"] raises KeyError, after the removal.
LegacyRespondRaise(p) ==
    /\ pc[p] = "respond"
    /\ ~("text" \in DOMAIN result[p])
    /\ LegacyRemoveSegment(p)
    /\ LegacyRaiseInChunk(p, "respond")
    /\ UNCHANGED <<media, srcExists, args, locals, calls, closed>>

\* The consumer's next() after a window's event: the loop goes on.
LegacyResume(p) ==
    /\ pc[p] \in {"yield_chunk", "yield_error"}
    /\ i' = [i EXCEPT ![p] = @ + 1]
    /\ result' = [result EXCEPT ![p] = NoResult]
    /\ segments' = [segments EXCEPT ![p] = <<>>]
    /\ pc' = [pc EXCEPT ![p] = "loop"]
    /\ UNCHANGED <<files, args, duration, total_chunks, events, calls, closed>>

\* The consumer's next() after the whole-run error event of line 138.
LegacyResumeFatal(p) ==
    /\ pc[p] = "yield_fatal"
    /\ pc' = [pc EXCEPT ![p] = "finally"]
    /\ UNCHANGED <<files, args, locals, events, calls, closed>>

\* The consumer closes the generator at a yield: GeneratorExit passes both
\* handlers and reaches the finally.
LegacyClose(p) ==
    /\ pc[p] \in {"yield_chunk", "yield_error", "yield_fatal"}
    /\ closed' = [closed EXCEPT ![p] = TRUE]
    /\ pc' = [pc EXCEPT ![p] = "finally"]
    /\ UNCHANGED <<files, args, locals, events, calls>>

\* views.py:139-142  if os.path.exists(audio_path): os.remove(audio_path)
LegacyFinally(p) ==
    /\ pc[p] = "finally"
    /\ srcExists' = IF srcExists[audio_path[p]]
                    THEN [srcExists EXCEPT ![audio_path[p]] = FALSE]
                    ELSE srcExists
    /\ pc' = [pc EXCEPT ![p] = "done"]
    /\ UNCHANGED <<media, segFile, args, locals, events, calls, closed>>

legacy_streaming_transcribe(p) ==
    \/ LegacyLoadModelOk(p)
    \/ LegacyLoadModelRaise(p)
    \/ LegacyProbeOk(p)
    \/ LegacyProbeRaise(p)
    \/ LegacyLoopExit(p)
    \/ LegacyLoopSkip(p)
    \/ LegacyLoopEnter(p)
    \/ LegacyExtractOk(p)
    \/ LegacyExtractRaise(p)
    \/ LegacyTranscribeOk(p)
    \/ LegacyTranscribeRaise(p)
    \/ LegacyNormalizeOk(p)
    \/ LegacyNormalizeRaise(p)
    \/ LegacyRespondOk(p)
    \/ LegacyRespondRaise(p)
    \/ LegacyResume(p)
    \/ LegacyResumeFatal(p)
    \/ LegacyClose(p)
    \/ LegacyFinally(p)

\* The two generators side by side: an upload's generator object is created
\* with (temp_path, delete_on_complete = True) and each of its steps is taken
\* by the body of transcription.py or by the body of views.py.
StepEquiv(p) ==
    \/ transcribe_audio(p)
    \/ streaming_transcribe(p)
    \/ legacy_streaming_transcribe(p)

NextEquiv == \E p \in Procs : StepEquiv(p)

SpecEquiv == Init /\ [][NextEquiv]_vars


(* ------------------------------- C22 ---------------------------------- *)

\* From one state of a run made with delete_on_complete = True, each step
\* of the new body and the same step of the legacy body (the same probe,
\* extraction, engine or consumer outcome) lead to the same states.
SameSteps(p) ==
    /\ LoadModelOk(p) <=> LegacyLoadModelOk(p)
    /\ LoadModelRaise(p) <=> LegacyLoadModelRaise(p)
    /\ ProbeOk(p) <=> LegacyProbeOk(p)
    /\ ProbeRaise(p) <=> LegacyProbeRaise(p)
    /\ LoopExit(p) <=> LegacyLoopExit(p)
    /\ LoopSkip(p) <=> LegacyLoopSkip(p)
    /\ LoopEnter(p) <=> LegacyLoopEnter(p)
    /\ ExtractOk(p) <=> LegacyExtractOk(p)
    /\ ExtractRaise(p) <=> LegacyExtractRaise(p)
    /\ TranscribeOk(p) <=> LegacyTranscribeOk(p)
    /\ TranscribeRaise(p) <=> LegacyTranscribeRaise(p)
    /\ NormalizeOk(p) <=> LegacyNormalizeOk(p)
    /\ NormalizeRaise(p) <=> LegacyNormalizeRaise(p)
    /\ RespondOk(p) <=> LegacyRespondOk(p)
    /\ RespondRaise(p) <=> LegacyRespondRaise(p)
    /\ Resume(p) <=> LegacyResume(p)
    /\ ResumeFatal(p) <=> LegacyResumeFatal(p)
    /\ Close(p) <=> LegacyClose(p)
    /\ Finally(p) <=> LegacyFinally(p)

\* C22: the legacy streaming_transcribe(audio_path) of views.py and
\* streaming_transcribe(audio_path, delete_on_complete=True) of
\* views/transcription.py are equivalent: on the same source and the same
\* probe, extraction and engine outcomes every step of the one is a step of
\* the other, with the same events yielded, the same segment files written
\* and removed and the same removal of the source at the end.
C22_LegacyEquivalent ==
    [][\A p \in Procs : delete_on_complete[p] => SameSteps(p)]_vars

\* C22 witness: a run of three windows made with delete_on_complete = True
\* has ended, with a success event, an error event that left its segment
\* file behind, a final success event, and the source removed.
C22_Witness ==
    \E p \in Procs :
        /\ pc[p] = "done" /\ ~closed[p] /\ delete_on_complete[p]
        /\ ~srcExists[audio_path[p]]
        /\ Len(events[p]) = 3
        /\ IsChunkResponse(events[p][1])
        /\ IsChunkError(events[p][2]) /\ segFile[<<audio_path[p], 1>>] = p
        /\ IsChunkResponse(events[p][3])

====
